---- MODULE Spec2Model ----
(***************************************************************************)
(* A model of the Swarms command line front end, swarms/cli/main.py:       *)
(* main()'s argument parsing, dispatch and two exception handlers, and the *)
(* actions check_login, run_autoswarm and check_and_upgrade_version.       *)
(* Strings are TLA+ strings; prefix, substring and strip are computed on   *)
(* their characters.  The collaborators (wizard, YAML loader, generator,   *)
(* browser, pip) are the environment: each call returns or raises an       *)
(* Exception, chosen nondeterministically.                                 *)
(***************************************************************************)
EXTENDS Integers, Sequences, FiniteSets

VARIABLES
    cache,      \* cache.txt in the working directory: [exists, content]
    pc,         \* main(): "start", "dispatch", or where the process ended
    args,       \* the argv given to the process: [command, yaml_file, task, model]
    console,    \* what main() displayed, in order: [kind, text]
    calls,      \* the collaborators and system calls main() made, in order
    raised,     \* the exception that left the dispatched action, if any
    escaped,    \* the exception that left main(), if any
    status,     \* the exit status of the process (-1 while it runs)
    env,        \* what the environment answered in the dispatched action
    ppc,        \* check_login processes: each one's position
    seen,       \* check_login processes: what f.read() returned
    before,     \* check_login processes: cache.txt when each call so far began
    out,        \* check_login processes: the messages of the current call
    effects,    \* check_login processes: sleeps and writes of the current call
    ret,        \* check_login processes: the values returned so far
    active      \* the check_login processes of this run

mainVars == <<pc, args, console, calls, raised, escaped, status, env>>
loginVars == <<ppc, seen, before, out, effects, ret, active>>
vars == <<cache, pc, args, console, calls, raised, escaped, status, env,
          ppc, seen, before, out, effects, ret, active>>

---------------------------------------------------------------------------
(* Bounds *)

\* The longest list of lines the outdated-package query returns.
MaxLines == 3
\* The number of concurrent check-login processes.
NProcs == 2
\* The number of sequential check_login() calls of one process.
MaxCalls == 3

---------------------------------------------------------------------------
(* Strings *)

\* Python's None and a str, as the value of an optional argument.
None == <<>>
Some(s) == <<s>>

\* The characters str.strip() removes (the ASCII ones).
Whitespace == {" ", "\t", "\n", "\r"}

CharAt(s, i) == SubSeq(s, i, i)

\* str.startswith
StartsWith(s, prefix) ==
    /\ Len(s) >= Len(prefix)
    /\ SubSeq(s, 1, Len(prefix)) = prefix

\* needle in s
Contains(s, needle) ==
    \E i \in 1..(Len(s) - Len(needle) + 1) :
        SubSeq(s, i, i + Len(needle) - 1) = needle

RECURSIVE LStrip(_)
LStrip(s) ==
    IF Len(s) > 0 /\ CharAt(s, 1) \in Whitespace
    THEN LStrip(SubSeq(s, 2, Len(s)))
    ELSE s

RECURSIVE RStrip(_)
RStrip(s) ==
    IF Len(s) > 0 /\ CharAt(s, Len(s)) \in Whitespace
    THEN RStrip(SubSeq(s, 1, Len(s) - 1))
    ELSE s

\* str.strip()
Strip(s) == RStrip(LStrip(s))

\* bool(x) of an optional str: None and "" are falsy
Truthy(x) == x # None /\ x[1] # ""

---------------------------------------------------------------------------
(* Exceptions and the console *)

NoExc == [kind |-> "none", text |-> "", code |-> 0]
Exc(text) == [kind |-> "Exception", text |-> text, code |-> 1]
SystemExit(code) == [kind |-> "SystemExit", text |-> "", code |-> code]

\* console.print
ConsolePrint(text) == [kind |-> "print", text |-> text]

\* show_error: a panel holding the message, then the help text if any
show_error(message, help_text) ==
    <<[kind |-> "panel", text |-> message]>>
        \o (IF help_text # "" THEN <<ConsolePrint(help_text)>> ELSE <<>>)

\* formatter.print_panel
PrintPanel(text) == [kind |-> "formatter_panel", text |-> text]

Shown(log, kind, text) ==
    \E i \in DOMAIN log : log[i].kind = kind /\ log[i].text = text

Called(log, fn) == \E i \in DOMAIN log : log[i][1] = fn

Count(log, fn) == Cardinality({i \in DOMAIN log : log[i][1] = fn})

\* What a function did: its output, its calls, and the exception it raised.
Result(con, cls, exc) == [console |-> con, calls |-> cls, exc |-> exc]

---------------------------------------------------------------------------
(* check_login and cache.txt *)

\* The literal f.read() is compared with, line 158.
MARKER == "logged_in"

\* The literal written, line 168.
WRITTEN == "logged_in"

NoFile == [exists |-> FALSE, content |-> ""]
File(content) == [exists |-> TRUE, content |-> content]

\* f.read() of a file opened in text mode: "\r\n" and "\r" are read as "\n".
RECURSIVE ReadText(_)
ReadText(content) ==
    IF Len(content) = 0 THEN ""
    ELSE IF CharAt(content, 1) = "\r"
         THEN "\n" \o ReadText(SubSeq(content,
                  IF Len(content) > 1 /\ CharAt(content, 2) = "\n" THEN 3 ELSE 2,
                  Len(content)))
         ELSE CharAt(content, 1) \o ReadText(SubSeq(content, 2, Len(content)))

\* A mutant of MarkerMatches: the text read is stripped before the test.
MarkerMatchesStripped(text) == Strip(text) = MARKER

\* Line 158: f.read() == "logged_in"
MarkerMatches(text) == text = MARKER

\* A mutant of OpenForWrite: the file is created, but not truncated.
OpenForWriteNoTruncate(file) == IF file.exists THEN file ELSE File("")

\* Line 167: open(cache_file, "w") creates the file or truncates it.
OpenForWrite(file) == File("")

\* A mutant of WriteMarker: a line is written, the marker and a newline.
WriteMarkerLine(file) ==
    File(WRITTEN \o "\n" \o SubSeq(file.content, Len(WRITTEN) + 2, Len(file.content)))

\* Line 168 and the close of line 167's file: the text is written at the
\* start of the file, over what is there.
WriteMarker(file) ==
    File(WRITTEN \o SubSeq(file.content, Len(WRITTEN) + 1, Len(file.content)))

\* The test of lines 156-158: the file is there and reads as the marker.
IsLoggedIn(file) == file.exists /\ MarkerMatches(ReadText(file.content))

\* check_login() as one call: what it displays and calls, cache.txt after
\* it, what it returns.  open_fails: the environment refuses
\* open(cache_file, "w").
check_login(file, open_fails) ==
    LET probe == <<<<"os.path.exists", "cache.txt">>>>
                     \o (IF file.exists THEN <<<<"read", "cache.txt">>>> ELSE <<>>)
    IN  IF IsLoggedIn(file)
        THEN [console |-> <<ConsolePrint("Authentication verified")>>,
              calls |-> probe, exc |-> NoExc, cache |-> file, ret |-> <<TRUE>>]
        ELSE IF open_fails
        THEN [console |-> <<>>,
              calls |-> probe \o <<<<"time.sleep", "1">>>>,
              exc |-> Exc("Permission denied: 'cache.txt'"),
              cache |-> file, ret |-> <<>>]
        ELSE [console |-> <<ConsolePrint("Login successful!")>>,
              calls |-> probe \o <<<<"time.sleep", "1">>, <<"write", "cache.txt">>>>,
              exc |-> NoExc, cache |-> WriteMarker(OpenForWrite(file)),
              ret |-> <<TRUE>>]

---------------------------------------------------------------------------
(* run_autoswarm *)

YAML_NEEDLE == "No YAML content found"

\* A mutant of IsBlank: the test without x.strip().
IsBlankNoStrip(x) == ~Truthy(x)

\* Lines 190 and 193: not x or x.strip() == ""
IsBlank(x) == ~Truthy(x) \/ Strip(x[1]) = ""

\* A mutant of IsYamlError: the text is compared, not searched.
IsYamlErrorExact(text) == text = YAML_NEEDLE

\* Line 212: "No YAML content found" in str(e)
IsYamlError(text) == Contains(text, YAML_NEEDLE)

\* The handler of lines 211-227.
AutoswarmHandler(exc) ==
    IF exc.kind # "Exception" THEN <<>>
    ELSE IF IsYamlError(exc.text)
    THEN show_error("Failed to generate YAML configuration",
                    "This might be due to an API key issue or invalid model configuration.")
    ELSE show_error("Error during autoswarm execution: " \o exc.text,
                    "For debugging, try:")

\* The try block of lines 180-209.  gen is what generate_swarm_config does
\* when called: [exc, truthy].
AutoswarmBody(task, model, gen) ==
    LET init == <<ConsolePrint("Initializing autoswarm configuration...")>>
    IN  IF IsBlank(task)
        THEN Result(init, <<>>, Exc("Task cannot be empty"))
        ELSE IF IsBlank(model)
        THEN Result(init, <<>>, Exc("Model name cannot be empty"))
        ELSE LET generating == init \o
                     <<ConsolePrint("Generating swarm for task: " \o task[1])>>
                 call == <<<<"generate_swarm_config", task[1], model[1]>>>>
             IN  IF gen.exc # NoExc
                 THEN Result(generating, call, gen.exc)
                 ELSE IF gen.truthy
                 THEN Result(generating \o
                          <<ConsolePrint("Swarm configuration generated successfully!")>>,
                          call, NoExc)
                 ELSE Result(generating, call,
                          Exc("Failed to generate swarm configuration"))

\* run_autoswarm(task, model): the body, then the handler; an Exception
\* does not leave it.
run_autoswarm(task, model, gen) ==
    LET body == AutoswarmBody(task, model, gen)
    IN  Result(body.console \o AutoswarmHandler(body.exc), body.calls,
               IF body.exc.kind = "Exception" THEN NoExc ELSE body.exc)

---------------------------------------------------------------------------
(* check_and_upgrade_version *)

PACKAGE_PREFIX == "swarms=="

\* A mutant of UpgradeLoop: the return of line 262 is missing.
RECURSIVE UpgradeLoopNoReturn(_, _, _)
UpgradeLoopNoReturn(outdated, i, install) ==
    IF i > Len(outdated)
    THEN Result(<<ConsolePrint("Swarms is up to date!")>>, <<>>, NoExc)
    ELSE IF StartsWith(outdated[i], PACKAGE_PREFIX)
    THEN IF install # NoExc
         THEN Result(<<ConsolePrint("Update available!")>>,
                     <<<<"pip install --upgrade swarms">>>>, install)
         ELSE LET rest == UpgradeLoopNoReturn(outdated, i + 1, install)
              IN  Result(<<ConsolePrint("Update available!"),
                           ConsolePrint("Swarms upgraded successfully!")>>
                             \o rest.console,
                         <<<<"pip install --upgrade swarms">>>> \o rest.calls,
                         rest.exc)
    ELSE UpgradeLoopNoReturn(outdated, i + 1, install)

\* The loop of lines 245-266 from line i of the query's output on.
RECURSIVE UpgradeLoop(_, _, _)
UpgradeLoop(outdated, i, install) ==
    IF i > Len(outdated)
    THEN Result(<<ConsolePrint("Swarms is up to date!")>>, <<>>, NoExc)
    ELSE IF StartsWith(outdated[i], PACKAGE_PREFIX)
    THEN IF install # NoExc
         THEN Result(<<ConsolePrint("Update available!")>>,
                     <<<<"pip install --upgrade swarms">>>>, install)
         ELSE Result(<<ConsolePrint("Update available!"),
                       ConsolePrint("Swarms upgraded successfully!")>>,
                     <<<<"pip install --upgrade swarms">>>>, NoExc)
    ELSE UpgradeLoop(outdated, i + 1, install)

\* check_and_upgrade_version(): query is what "pip list --outdated" does
\* ([exc, lines]), install what "pip install --upgrade swarms" does.
check_and_upgrade_version(query, install) ==
    LET list == <<<<"pip list --outdated --format=freeze">>>>
    IN  IF query.exc # NoExc
        THEN Result(<<>>, list, query.exc)
        ELSE LET loop == UpgradeLoop(query.lines, 1, install)
             IN  Result(loop.console, list \o loop.calls, loop.exc)

---------------------------------------------------------------------------
(* The inputs and the environment *)

\* The choices of the positional argument, lines 279-288.
Choices == {"onboarding", "help", "get-api-key", "check-login", "run-agents",
            "auto-upgrade", "book-call", "autoswarm"}

\* Command strings a user may type, the eight and others.
Commands == Choices \cup {"upgrade", "Help"}

\* --task: absent (None, line 298 has no default) or any string.
Tasks == {None, Some(""), Some(" "), Some(" \t\n"), Some("plan a trip"),
          Some(" plan "), Some("x")}

\* --model: "gpt-4" unless given (line 303).
Models == {Some("gpt-4"), Some(""), Some("  ")}

\* The model argument of run_autoswarm(task, model) called by itself.
AnyModels == Models \cup {None, Some(" gpt-4\n"), Some("gpt-4o-mini")}

\* --yaml-file: "agents.yaml" unless given (line 294).
YamlFiles == {"agents.yaml", "team.yaml"}

\* cache.txt before the process runs.
Contents == {"", "logged_in", "logged_in\n", "logged_in\r\n", " logged_in",
             "LOGGED_IN", "logged_in_2024", "logged", "x\r\ny"}
CacheStates == {NoFile} \cup {File(c) : c \in Contents}

\* What a collaborator's call does: return, or raise an Exception.
Outcomes == {NoExc, Exc("connection refused")}

\* What generate_swarm_config does: raise, or return a truthy or falsy value.
GenTexts == {"No YAML content found", "no yaml content found",
             "Error: No YAML content found in response.", "No YAML content",
             "rate limit exceeded", ""}
GenOutcomes == {[exc |-> NoExc, truthy |-> b] : b \in BOOLEAN}
                   \cup {[exc |-> Exc(t), truthy |-> FALSE] : t \in GenTexts}

\* The lines "pip list --outdated --format=freeze" may print.
Lines == {"swarms==5.1.0", "swarms-memory==0.1.2", "numpy==1.26.0", "swarms"}

RECURSIVE SeqsUpTo(_, _)
SeqsUpTo(S, n) ==
    IF n = 0 THEN {<<>>}
    ELSE LET shorter == SeqsUpTo(S, n - 1)
         IN  shorter \cup {Append(q, x) : q \in shorter, x \in S}

InstallFailure == Exc("Command 'pip install --upgrade swarms' returned non-zero exit status 1.")

Queries == {[exc |-> NoExc, lines |-> l] : l \in SeqsUpTo(Lines, MaxLines)}
               \cup {[exc |-> Exc("No such file or directory: 'pip'"), lines |-> <<>>]}

---------------------------------------------------------------------------
(* main() *)

\* A mutant of ParseResult: the parser has no choices.
ParseResultAnyCommand(command) == NoExc

\* parser.parse_args(), lines 277-307: a command that is not among the
\* choices is a usage error, and argparse exits with status 2.
ParseResult(command) ==
    IF command \in Choices THEN NoExc ELSE SystemExit(2)

\* A mutant of InnerHandler: the Exception is displayed and raised again.
InnerHandlerReraise(exc) ==
    IF exc.kind = "Exception"
    THEN [console |-> <<ConsolePrint("Error: " \o exc.text)>>, exc |-> exc]
    ELSE [console |-> <<>>, exc |-> exc]

\* A mutant of InnerHandler: a bare except, which catches SystemExit too.
InnerHandlerCatchAll(exc) ==
    IF exc.kind # "none"
    THEN [console |-> <<ConsolePrint("Error: " \o
                          (IF exc.kind = "SystemExit" THEN "1" ELSE exc.text))>>,
          exc |-> NoExc]
    ELSE [console |-> <<>>, exc |-> exc]

\* The handler of lines 336-340: an Exception is displayed, and main returns.
InnerHandler(exc) ==
    IF exc.kind = "Exception"
    THEN [console |-> <<ConsolePrint("Error: " \o exc.text)>>, exc |-> NoExc]
    ELSE [console |-> <<>>, exc |-> exc]

\* The handler of lines 341-345: an Exception is displayed and raised again.
OuterHandler(exc) ==
    IF exc.kind = "Exception"
    THEN [console |-> <<PrintPanel("Error detected: " \o exc.text \o " check your args")>>,
          exc |-> exc]
    ELSE [console |-> <<>>, exc |-> exc]

\* The status the interpreter exits with, lines 348-349: 0 when main()
\* returns, the code of a SystemExit, 1 for any other exception.
ExitStatus(exc) ==
    IF exc.kind = "none" THEN 0
    ELSE IF exc.kind = "SystemExit" THEN exc.code
    ELSE 1

\* A mutant of AutoswarmBranch: the test strips the task, so that a
\* whitespace-only --task is a usage error too.
AutoswarmBranchStripped(task, model, gen) ==
    IF IsBlank(task)
    THEN Result(show_error("Missing required argument: --task",
                           "Example usage: python cli.py autoswarm --task 'analyze this data' --model gpt-4"),
                <<>>, SystemExit(1))
    ELSE run_autoswarm(task, model, gen)

\* The branch of lines 328-335.
AutoswarmBranch(task, model, gen) ==
    IF ~Truthy(task)
    THEN Result(show_error("Missing required argument: --task",
                           "Example usage: python cli.py autoswarm --task 'analyze this data' --model gpt-4"),
                <<>>, SystemExit(1))
    ELSE run_autoswarm(task, model, gen)

BANNER == ConsolePrint("Welcome to Swarms")

\* Lines 270-307: the banner, then the parse of argv.
ParseArgs ==
    /\ pc = "start"
    /\ \E banner \in Outcomes :
          IF banner # NoExc
          THEN LET o == OuterHandler(banner)
               IN  /\ console' = console \o o.console
                   /\ escaped' = o.exc
                   /\ status' = ExitStatus(o.exc)
                   /\ pc' = "exit_banner"
          ELSE LET parse == ParseResult(args.command)
                   o == OuterHandler(parse)
               IN  IF parse = NoExc
                   THEN /\ console' = console \o <<BANNER>>
                        /\ pc' = "dispatch"
                        /\ UNCHANGED <<escaped, status>>
                   ELSE /\ console' = console \o <<BANNER,
                               ConsolePrint("usage: error: argument command: invalid choice")>>
                               \o o.console
                        /\ escaped' = o.exc
                        /\ status' = ExitStatus(o.exc)
                        /\ pc' = "exit_parse"
    /\ UNCHANGED <<cache, args, calls, raised, env>>
    /\ UNCHANGED loginVars

\* Lines 309-345 around one branch: r is what the branch did, file is
\* cache.txt after it, answer what the environment answered.
Finish(r, file, answer) ==
    LET inner == InnerHandler(r.exc)
        outer == OuterHandler(inner.exc)
    IN  /\ console' = console \o r.console \o inner.console \o outer.console
        /\ calls' = calls \o r.calls
        /\ cache' = file
        /\ raised' = r.exc
        /\ escaped' = outer.exc
        /\ status' = ExitStatus(outer.exc)
        /\ env' = answer
        /\ pc' = "exit"
        /\ UNCHANGED args
        /\ UNCHANGED loginVars

\* Lines 310-311.
Onboarding ==
    /\ pc = "dispatch" /\ args.command = "onboarding"
    /\ \E o \in Outcomes :
          Finish(Result(<<>>, <<<<"OnboardingProcess.run">>>>, o), cache, o)

\* Lines 312-313 and show_help, lines 106-115.
Help ==
    /\ pc = "dispatch" /\ args.command = "help"
    /\ Finish(Result(<<ConsolePrint("Swarms CLI - Command Reference"),
                       ConsolePrint("Available Commands"),
                       ConsolePrint("For detailed documentation, visit: https://docs.swarms.world")>>,
                     <<>>, NoExc), cache, NoExc)

\* Lines 314-315 and get_api_key, lines 140-149.
GetApiKey ==
    /\ pc = "dispatch" /\ args.command = "get-api-key"
    /\ \E o \in Outcomes :
          Finish(Result(IF o = NoExc
                        THEN <<ConsolePrint("API key page opened in your browser")>>
                        ELSE <<>>,
                        <<<<"webbrowser.open", "https://swarms.world/platform/api-keys">>>>
                            \o (IF o = NoExc THEN <<<<"time.sleep", "1">>>> ELSE <<>>),
                        o), cache, o)

\* Lines 316-317.
CheckLoginCommand ==
    /\ pc = "dispatch" /\ args.command = "check-login"
    /\ \E open_fails \in BOOLEAN :
          LET r == check_login(cache, open_fails)
          IN  Finish(Result(r.console, r.calls, r.exc), r.cache, open_fails)

\* Lines 318-321.
RunAgents ==
    /\ pc = "dispatch" /\ args.command = "run-agents"
    /\ \E o \in Outcomes :
          Finish(Result(<<>>,
                        <<<<"create_agents_from_yaml", args.yaml_file, "tasks">>>>, o),
                 cache, o)

\* Lines 322-323.
AutoUpgrade ==
    /\ pc = "dispatch" /\ args.command = "auto-upgrade"
    /\ \E query \in Queries, install \in {NoExc, InstallFailure} :
          Finish(check_and_upgrade_version(query, install), cache,
                 [query |-> query, install |-> install])

\* Lines 324-327.
BookCall ==
    /\ pc = "dispatch" /\ args.command = "book-call"
    /\ \E o \in Outcomes :
          Finish(Result(<<>>,
                        <<<<"webbrowser.open",
                            "https://cal.com/swarms/swarms-strategy-session">>>>, o),
                 cache, o)

\* Lines 328-335.
Autoswarm ==
    /\ pc = "dispatch" /\ args.command = "autoswarm"
    /\ \E gen \in GenOutcomes :
          Finish(AutoswarmBranch(args.task, args.model, gen), cache, gen)

InitLoginIdle ==
    /\ ppc = <<>> /\ seen = <<>> /\ before = <<>> /\ out = <<>>
    /\ effects = <<>> /\ ret = <<>> /\ active = {}

Init ==
    /\ cache \in CacheStates
    /\ pc = "start"
    /\ args \in [command : Commands, yaml_file : YamlFiles, task : Tasks, model : Models]
    /\ console = <<>>
    /\ calls = <<>>
    /\ raised = NoExc
    /\ escaped = NoExc
    /\ status = -1
    /\ env = NoExc
    /\ InitLoginIdle

Next ==
    \/ ParseArgs
    \/ Onboarding
    \/ Help
    \/ GetApiKey
    \/ CheckLoginCommand
    \/ RunAgents
    \/ AutoUpgrade
    \/ BookCall
    \/ Autoswarm

Spec == Init /\ [][Next]_vars

---------------------------------------------------------------------------
(* run_autoswarm(task, model) called by itself *)

InitMainIdle(position) ==
    /\ pc = position
    /\ console = <<>>
    /\ calls = <<>>
    /\ raised = NoExc
    /\ escaped = NoExc
    /\ status = -1
    /\ env = NoExc

InitAutoswarm ==
    /\ cache = NoFile
    /\ args \in [command : {"autoswarm"}, yaml_file : {"agents.yaml"},
                 task : Tasks, model : AnyModels]
    /\ InitMainIdle("call")
    /\ InitLoginIdle

\* Lines 177-227: raised is the exception raised in the try block, escaped
\* the one that leaves the function.
CallRunAutoswarm ==
    /\ pc = "call"
    /\ \E gen \in GenOutcomes :
          LET body == AutoswarmBody(args.task, args.model, gen)
              r == run_autoswarm(args.task, args.model, gen)
          IN  /\ console' = console \o r.console
              /\ calls' = calls \o r.calls
              /\ raised' = body.exc
              /\ escaped' = r.exc
              /\ env' = gen
    /\ pc' = "returned"
    /\ UNCHANGED <<cache, args, status>>
    /\ UNCHANGED loginVars

NextAutoswarm == CallRunAutoswarm

SpecAutoswarm == InitAutoswarm /\ [][NextAutoswarm]_vars

---------------------------------------------------------------------------
(* check_login() step by step: processes that share cache.txt *)

Procs == 1..NProcs

InitLoginProcs(procs) ==
    /\ cache \in CacheStates
    /\ active = procs
    /\ ppc = [p \in procs |-> "exists"]
    /\ seen = [p \in procs |-> None]
    /\ before = [p \in procs |-> <<cache>>]
    /\ out = [p \in procs |-> <<>>]
    /\ effects = [p \in procs |-> <<>>]
    /\ ret = [p \in procs |-> <<>>]
    /\ args = [command |-> "check-login", yaml_file |-> "agents.yaml",
               task |-> None, model |-> Some("gpt-4")]
    /\ InitMainIdle("check_login")

\* Line 156: os.path.exists(cache_file)
Exists(p) ==
    /\ ppc[p] = "exists"
    /\ ppc' = [ppc EXCEPT ![p] = IF cache.exists THEN "read" ELSE "sleep"]
    /\ UNCHANGED <<cache, seen, before, out, effects, ret, active>>
    /\ UNCHANGED mainVars

\* Lines 157-162: the file is opened and read; when it reads as the marker
\* the call displays "Authentication verified" and returns True.
Read(p) ==
    /\ ppc[p] = "read"
    /\ IF ~cache.exists
       THEN /\ ppc' = [ppc EXCEPT ![p] = "raised"]
            /\ UNCHANGED <<seen, out, ret>>
       ELSE LET text == ReadText(cache.content)
            IN  /\ seen' = [seen EXCEPT ![p] = Some(text)]
                /\ IF MarkerMatches(text)
                   THEN /\ out' = [out EXCEPT ![p] = Append(@, "Authentication verified")]
                        /\ ret' = [ret EXCEPT ![p] = Append(@, TRUE)]
                        /\ ppc' = [ppc EXCEPT ![p] = "done"]
                   ELSE /\ ppc' = [ppc EXCEPT ![p] = "sleep"]
                        /\ UNCHANGED <<out, ret>>
    /\ UNCHANGED <<cache, before, effects, active>>
    /\ UNCHANGED mainVars

\* Lines 164-166: time.sleep(1)
Sleep(p) ==
    /\ ppc[p] = "sleep"
    /\ effects' = [effects EXCEPT ![p] = Append(@, "sleep")]
    /\ ppc' = [ppc EXCEPT ![p] = "open"]
    /\ UNCHANGED <<cache, seen, before, out, ret, active>>
    /\ UNCHANGED mainVars

\* Line 167: open(cache_file, "w")
Open(p) ==
    /\ ppc[p] = "open"
    /\ cache' = OpenForWrite(cache)
    /\ ppc' = [ppc EXCEPT ![p] = "write"]
    /\ UNCHANGED <<seen, before, out, effects, ret, active>>
    /\ UNCHANGED mainVars

\* Line 168, and the file is closed.
Write(p) ==
    /\ ppc[p] = "write"
    /\ cache' = WriteMarker(cache)
    /\ effects' = [effects EXCEPT ![p] = Append(@, "write")]
    /\ ppc' = [ppc EXCEPT ![p] = "report"]
    /\ UNCHANGED <<seen, before, out, ret, active>>
    /\ UNCHANGED mainVars

\* Lines 171-174: "Login successful!" is displayed and True returned.
Report(p) ==
    /\ ppc[p] = "report"
    /\ out' = [out EXCEPT ![p] = Append(@, "Login successful!")]
    /\ ret' = [ret EXCEPT ![p] = Append(@, TRUE)]
    /\ ppc' = [ppc EXCEPT ![p] = "done"]
    /\ UNCHANGED <<cache, seen, before, effects, active>>
    /\ UNCHANGED mainVars

\* The caller calls check_login() again, lines 152-154.
CallAgain(p) ==
    /\ ppc[p] = "done"
    /\ Len(ret[p]) < MaxCalls
    /\ ppc' = [ppc EXCEPT ![p] = "exists"]
    /\ seen' = [seen EXCEPT ![p] = None]
    /\ before' = [before EXCEPT ![p] = Append(@, cache)]
    /\ out' = [out EXCEPT ![p] = <<>>]
    /\ effects' = [effects EXCEPT ![p] = <<>>]
    /\ UNCHANGED <<cache, ret, active>>
    /\ UNCHANGED mainVars

\* One process that calls check_login() MaxCalls times in sequence.
InitLogin == InitLoginProcs({1})

ExistsStep == \E p \in active : Exists(p)
ReadStep == \E p \in active : Read(p)
SleepStep == \E p \in active : Sleep(p)
OpenStep == \E p \in active : Open(p)
WriteStep == \E p \in active : Write(p)
ReportStep == \E p \in active : Report(p)
CallAgainStep == \E p \in active : CallAgain(p)

NextLogin ==
    \/ ExistsStep
    \/ ReadStep
    \/ SleepStep
    \/ OpenStep
    \/ WriteStep
    \/ ReportStep
    \/ CallAgainStep

SpecLogin == InitLogin /\ [][NextLogin]_vars

\* NProcs concurrent processes, each one call of check_login().
InitRace == InitLoginProcs(Procs)

NextRace ==
    \/ ExistsStep
    \/ ReadStep
    \/ SleepStep
    \/ OpenStep
    \/ WriteStep
    \/ ReportStep

SpecRace == InitRace /\ [][NextRace]_vars

---------------------------------------------------------------------------
(* Claims about main() *)

Dispatched == pc = "exit"
Terminated == pc \in {"exit_banner", "exit_parse", "exit"}

ErrorLineShown ==
    \E i \in DOMAIN console :
        console[i].kind = "print" /\ StartsWith(console[i].text, "Error: ")

ErrorDetectedShown == \E i \in DOMAIN console : console[i].kind = "formatter_panel"

\* C1 as stated: an Exception that a dispatched action raises is displayed
\* and leaves main(), and the process ends with a non-zero status.
C1_Reraised ==
    (Dispatched /\ raised.kind = "Exception")
        => /\ ErrorLineShown \/ ErrorDetectedShown
           /\ escaped = raised
           /\ status # 0

\* C1 amended: an Exception that a dispatched action raises is caught by the
\* inner handler of main(): it is displayed as an "Error: <text>" line, it
\* does not leave main(), and the process ends with status 0.  Only an
\* Exception raised before the dispatch is displayed by the outer handler
\* and raised again (status 1).
C1_Swallowed ==
    /\ (Dispatched /\ raised.kind = "Exception")
          => /\ Shown(console, "print", "Error: " \o raised.text)
             /\ ~ErrorDetectedShown
             /\ escaped = NoExc
             /\ status = 0
    /\ pc = "exit_banner"
          => /\ ErrorDetectedShown
             /\ escaped.kind = "Exception"
             /\ status = 1

C1_Witness ==
    /\ Dispatched
    /\ args.command = "auto-upgrade"
    /\ raised = InstallFailure
    /\ status = 0

BlankTaskGiven == args.task # None /\ Strip(args.task[1]) = ""

MissingTaskShown == Shown(console, "panel", "Missing required argument: --task")

GeneratorCalled == Called(calls, "generate_swarm_config")

\* C2 as stated: autoswarm with an empty or whitespace-only --task never
\* calls the generator, reports the usage error and exits with status 1.
C2_UsageErrorExit1 ==
    (Dispatched /\ args.command = "autoswarm" /\ BlankTaskGiven)
        => /\ ~GeneratorCalled
           /\ MissingTaskShown
           /\ status = 1

\* C2 amended: autoswarm with an empty or whitespace-only --task never
\* calls the generator; an empty --task reports the usage error and exits
\* with status 1, a whitespace-only one is displayed by run_autoswarm as
\* "Error during autoswarm execution: Task cannot be empty" and the process
\* ends with status 0.
C2_BlankTask ==
    (Dispatched /\ args.command = "autoswarm" /\ BlankTaskGiven)
        => /\ ~GeneratorCalled
           /\ IF args.task = Some("")
              THEN MissingTaskShown /\ status = 1
              ELSE /\ ~MissingTaskShown
                   /\ Shown(console, "panel",
                            "Error during autoswarm execution: Task cannot be empty")
                   /\ status = 0

C2_Witness ==
    /\ Dispatched
    /\ args.command = "autoswarm"
    /\ args.task = Some(" \t\n")
    /\ status = 0

\* C3: autoswarm with --task absent or "" shows the missing argument error
\* and exits with status 1 before run_autoswarm or the generator is called;
\* neither handler of main() intercepts the exit.
C3_MissingTaskExits ==
    (Dispatched /\ args.command = "autoswarm" /\ args.task \in {None, Some("")})
        => /\ MissingTaskShown
           /\ status = 1
           /\ escaped = SystemExit(1)
           /\ calls = <<>>
           /\ ~Shown(console, "print", "Initializing autoswarm configuration...")
           /\ ~ErrorLineShown
           /\ ~ErrorDetectedShown

C3_Witness ==
    /\ Dispatched
    /\ args.command = "autoswarm"
    /\ args.task = None
    /\ MissingTaskShown
    /\ status = 1

\* C5: a command that is not one of the eight fails the parse of argv with
\* a non-zero status, and no action runs: the dispatch is never reached and
\* nothing is called.
C5_UnknownCommand ==
    args.command \notin Choices
        => /\ pc \in {"start", "exit_banner", "exit_parse"}
           /\ calls = <<>>
           /\ Terminated => status # 0
           /\ pc = "exit_parse"
                 => /\ status = 2
                    /\ Shown(console, "print",
                             "usage: error: argument command: invalid choice")

C5_Witness ==
    /\ pc = "exit_parse"
    /\ args.command = "upgrade"
    /\ status = 2
    /\ calls = <<>>

Matches(lines) == {i \in DOMAIN lines : StartsWith(lines[i], "swarms==")}

UpgradedShown == Shown(console, "print", "Swarms upgraded successfully!")
UpToDateShown == Shown(console, "print", "Swarms is up to date!")

\* C6: for every list the outdated-package query returns, the installer
\* runs once if a line starts with "swarms==", however many do, and not at
\* all otherwise, and then "up to date" is reported; the two messages are
\* never both displayed.
C6_InstallOnce ==
    (Dispatched /\ args.command = "auto-upgrade" /\ env.query.exc = NoExc)
        => /\ Count(calls, "pip install --upgrade swarms")
                 = (IF Matches(env.query.lines) # {} THEN 1 ELSE 0)
           /\ Matches(env.query.lines) = {} => UpToDateShown
           /\ ~(UpgradedShown /\ UpToDateShown)

C6_Witness ==
    /\ Dispatched
    /\ args.command = "auto-upgrade"
    /\ env.query.exc = NoExc
    /\ Cardinality(Matches(env.query.lines)) >= 2
    /\ Count(calls, "pip install --upgrade swarms") = 1
    /\ UpgradedShown

---------------------------------------------------------------------------
(* Claims about run_autoswarm *)

Returned == pc = "returned"

\* None, "" and the strings of whitespace only.
Blank(x) ==
    x = None \/ \A i \in 1..Len(x[1]) : CharAt(x[1], i) \in Whitespace

PanelCount == Cardinality({i \in DOMAIN console : console[i].kind = "panel"})

SuccessShown ==
    Shown(console, "print", "Swarm configuration generated successfully!")

\* C7: run_autoswarm calls the generator only when task and model are both
\* non-empty once stripped, and at most once; otherwise "Task cannot be
\* empty" or "Model name cannot be empty" is raised before the call, the
\* task being tested first.
C7_ValidatedBeforeGenerator ==
    Returned
        => /\ GeneratorCalled => (~Blank(args.task) /\ ~Blank(args.model))
           /\ Count(calls, "generate_swarm_config") <= 1
           /\ Blank(args.task)
                 => raised = Exc("Task cannot be empty") /\ calls = <<>>
           /\ (~Blank(args.task) /\ Blank(args.model))
                 => raised = Exc("Model name cannot be empty") /\ calls = <<>>

C7_Witness ==
    /\ Returned
    /\ args.task = Some(" \t\n")
    /\ args.model = Some("  ")
    /\ raised = Exc("Task cannot be empty")
    /\ ~GeneratorCalled

\* C8: an exception raised inside run_autoswarm does not leave it and is
\* displayed once: as "Failed to generate YAML configuration" if and only
\* if its text contains "No YAML content found", as "Error during autoswarm
\* execution" otherwise; the success message is not displayed.
C8_CaughtAndDisplayedOnce ==
    (Returned /\ raised.kind = "Exception")
        => /\ escaped = NoExc
           /\ PanelCount = 1
           /\ Shown(console, "panel", "Failed to generate YAML configuration")
                 <=> Contains(raised.text, "No YAML content found")
           /\ Shown(console, "panel", "Error during autoswarm execution: " \o raised.text)
                 <=> ~Contains(raised.text, "No YAML content found")
           /\ ~SuccessShown

C8_Witness ==
    /\ Returned
    /\ raised = Exc("Error: No YAML content found in response.")
    /\ Shown(console, "panel", "Failed to generate YAML configuration")
    /\ escaped = NoExc

---------------------------------------------------------------------------
(* Claims about check_login *)

AllDone == \A p \in active : ppc[p] = "done"

Succeeded(p) ==
    /\ Len(out[p]) = 1
    /\ out[p][1] \in {"Authentication verified", "Login successful!"}

Wrote(p) == \E i \in DOMAIN effects[p] : effects[p][i] = "write"

\* cache.txt when the current call of p began.
AtCall(p) == before[p][Len(before[p])]

\* C4: from any cache.txt, after one or more check_login() calls in
\* sequence cache.txt holds exactly "logged_in", and every call returned
\* True and displayed a success message.
C4_Idempotent ==
    \A p \in active :
        /\ ppc[p] # "raised"
        /\ ppc[p] = "done"
              => /\ cache = File("logged_in")
                 /\ Len(ret[p]) >= 1
                 /\ \A i \in DOMAIN ret[p] : ret[p][i] = TRUE
                 /\ Succeeded(p)

C4_Witness ==
    /\ active = {1}
    /\ ppc[1] = "done"
    /\ Len(ret[1]) >= 2
    /\ before[1][1] = NoFile
    /\ AtCall(1) = File("logged_in")
    /\ out[1] = <<"Authentication verified">>
    /\ cache = File("logged_in")

\* C9: whatever the interleaving of two or more concurrent check_login
\* processes, once all have ended cache.txt holds exactly "logged_in" and
\* each has reported success; none fails.
C9_RaceEndsLoggedIn ==
    /\ \A p \in active : ppc[p] # "raised"
    /\ AllDone
          => /\ cache = File("logged_in")
             /\ \A p \in active : ret[p] = <<TRUE>> /\ Succeeded(p)

\* A process read the marker another had truncated, and wrote it again.
C9_Witness ==
    /\ Cardinality(active) >= 2
    /\ AllDone
    /\ \E p \in active :
          /\ AtCall(p).exists /\ AtCall(p).content # ""
          /\ seen[p] = Some("")
          /\ Wrote(p)
    /\ \A p \in active : Wrote(p)

\* C10: check_login() writes cache.txt if and only if the file is absent or
\* does not hold exactly "logged_in"; when it does, the call reports success
\* with no write and no sleep and the file is as it was; otherwise the file
\* is overwritten with "logged_in".
C10_WritesIffNotMarker ==
    \A p \in active :
        ppc[p] = "done"
            => LET held == AtCall(p).exists /\ AtCall(p).content = "logged_in"
               IN  /\ Wrote(p) <=> ~held
                   /\ held => /\ cache = AtCall(p)
                              /\ effects[p] = <<>>
                              /\ out[p] = <<"Authentication verified">>
                   /\ ~held => /\ cache = File("logged_in")
                               /\ effects[p] = <<"sleep", "write">>
                               /\ out[p] = <<"Login successful!">>

C10_Witness ==
    /\ active = {1}
    /\ ppc[1] = "done"
    /\ AtCall(1) = File("logged_in\n")
    /\ Wrote(1)
    /\ cache = File("logged_in")

====
